---- MODULE Spec2Model ----
(***************************************************************************)
(* SearchClient (src/src/sidebar/search-client.js): paging through the     *)
(* results of the search API, emitting `resultCount`, `results`, `error`   *)
(* and `end` events, with cancellation and the `maxResults` safety valve.  *)
(*                                                                         *)
(* An instance is an index e of the per-instance state functions.  The     *)
(* search function and the callers of get()/cancel() are the environment.  *)
(* A promise returned by the search function and not yet settled is an     *)
(* index in inflight[e]; settling it runs the rest of _getBatch.           *)
(*                                                                         *)
(* Everything _getBatch does between two awaits is one step: emit() runs   *)
(* the listeners synchronously, and listeners are taken not to throw and   *)
(* not to call get() or cancel() from inside an emit.                      *)
(***************************************************************************)
EXTENDS Integers, Sequences, FiniteSets, TLC

\* ------------------------------------------------------------------ bounds
MaxGets == 2        \* get() calls per instance
MaxCancels == 2     \* cancel() calls per instance
MaxCalls == 3       \* search function calls per instance

\* ------------------------------------------------------------ environment
EngineIds == {1, 2}

\* An annotation: its identity and the value of the field it is sorted by.
\* Annotation "a" has a falsy sort value (0 stands for 0, '' and undefined).
Items == {[id |-> "a", created |-> 0], [id |-> "b", created |-> 1]}

\* The annotations that come as replies.
ReplyItems == {[id |-> "b", created |-> 1]}

\* Caller queries: filter criteria, none of the paging keys.
Queries == {"q1", "q2"}

\* The queries the n-th get() of an instance is called with: the names are
\* interchangeable, so the first one is "q1".
QueriesOf(n) == IF n = 1 THEN {"q1"} ELSE Queries

\* What the search function can fail with.
Failures == {"failure"}

SizeError == "Results size exceeds maximum allowed annotations"

\* The options instances are constructed with (small values for chunkSize,
\* whose default is 200), and the totals the search function reports.
ChunkSizes == {2, 3}
MaxResultsOptions == {<<>>, <<2>>}
Totals == {1, 3}

\* Sequences over S of length at most n in which nothing occurs twice.
SeqsUpTo(S, n) ==
  {q \in UNION {[1..k -> S] : k \in 0..n} :
     \A i, j \in 1..Len(q) : q[i] = q[j] => i = j}

\* A SearchResult: `replies` is <<>> when the key is absent, <<r>> when it
\* holds the array r.
Pages(size) ==
  [total : Totals,
   rows : SeqsUpTo(Items, size),
   replies : {<<>>} \cup {<< <<r>> >> : r \in ReplyItems}]

\* ------------------------------------------------------------------ state
VARIABLES
  instances,    \* the instances that were constructed
  chunkSize,    \* this._chunkSize
  incremental,  \* this._incremental
  maxResults,   \* this._maxResults: <<>> is null, <<k>> is k
  canceled,     \* this._canceled
  results,      \* this._results
  resultCount,  \* this._resultCount: <<>> is null, <<n>> is n
  inflight,     \* indices in calls of the search calls that are not settled
  calls,        \* history: the search function's calls, in order
  delivered,    \* history: the pages taken in, in order
  events,       \* history: the events emitted, in order
  nGets,        \* history: number of get() calls (the current session)
  nCancels,     \* history: number of cancel() calls
  overlap,      \* history: the sessions that ran while another one did
  served        \* history: the answers given, where instances share them

vars == <<instances, chunkSize, incremental, maxResults, canceled, results,
          resultCount, inflight, calls, delivered, events, nGets, nCancels,
          overlap, served>>

config == <<instances, chunkSize, incremental, maxResults>>

\* ---------------------------------------------------------------- helpers
\* JavaScript truthiness of a number.
Truthy(v) == v # 0

\* `x || []`
OrEmpty(opt) == IF opt = <<>> THEN <<>> ELSE opt[1]

NoItems == <<>>

Event(kind, by, sess, page, total, items, err) ==
  [kind |-> kind, by |-> by, sess |-> sess, page |-> page,
   total |-> total, items |-> items, err |-> err]

EmitResultCount(sess, page, n) ==
  Event("resultCount", "getBatch", sess, page, n, NoItems, "")
EmitResults(sess, page, items) ==
  Event("results", "getBatch", sess, page, 0, items, "")
EmitError(sess, page, err) ==
  Event("error", "getBatch", sess, page, 0, NoItems, err)
EmitEnd(by, sess, page) ==
  Event("end", by, sess, page, 0, NoItems, "")

\* The searchQuery object _getBatch builds: the defaults, the caller's
\* query, and search_after when a truthy cursor was passed.
SearchQuery(e, query, searchAfter) ==
  [limit |-> chunkSize[e], sort |-> "created", order |-> "asc",
   separate_replies |-> TRUE, query |-> query,
   search_after |-> IF searchAfter # <<>> /\ Truthy(searchAfter[1])
                    THEN searchAfter ELSE <<>>]

\* How a search call was settled, as far as the histories keep it.
Pending == [state |-> "pending", total |-> 0, err |-> ""]
Resolved(page) == [state |-> "resolved", total |-> page.total, err |-> ""]
Rejected(err) == [state |-> "rejected", total |-> 0, err |-> err]

\* One call of the search function: the session and page it belongs to, the
\* request, how many events had been emitted when it was made, and how it
\* was settled.
Call(e, sess, page, query, searchAfter, seen) ==
  [sess |-> sess, page |-> page, query |-> query,
   req |-> SearchQuery(e, query, searchAfter), seen |-> seen,
   taken |-> Len(delivered[e]), answer |-> Pending]

\* A page the instance took in: neither discarded nor refused by the guard.
Taken(c, page, chunk) ==
  [sess |-> c.sess, page |-> c.page, total |-> page.total, chunk |-> chunk]

\* ------------------------------------------------------------------- init
Constructed(es) ==
  /\ instances = es
  /\ chunkSize \in [EngineIds -> ChunkSizes]
  /\ maxResults \in [EngineIds -> MaxResultsOptions]
  /\ canceled = [e \in EngineIds |-> FALSE]
  /\ results = [e \in EngineIds |-> <<>>]
  /\ resultCount = [e \in EngineIds |-> <<>>]
  /\ inflight = [e \in EngineIds |-> {}]
  /\ calls = [e \in EngineIds |-> <<>>]
  /\ delivered = [e \in EngineIds |-> <<>>]
  /\ events = [e \in EngineIds |-> <<>>]
  /\ nGets = [e \in EngineIds |-> 0]
  /\ nCancels = [e \in EngineIds |-> 0]
  /\ overlap = [e \in EngineIds |-> {}]
  /\ served = {}

\* One instance, in either mode; the second index is never constructed.
Init ==
  /\ Constructed({1})
  /\ incremental \in [EngineIds -> BOOLEAN]
  /\ incremental[2] = FALSE
  /\ chunkSize[2] = chunkSize[1]
  /\ maxResults[2] = maxResults[1]

\* ---------------------------------------------------------------- actions
\* Variant: get() starts the first batch without resetting the session state.
getKeepsState(e, query) ==
  /\ e \in instances
  /\ nGets[e] < MaxGets
  /\ Len(calls[e]) < MaxCalls
  /\ nGets' = [nGets EXCEPT ![e] = @ + 1]
  /\ calls' = [calls EXCEPT ![e] =
       Append(@, Call(e, nGets[e] + 1, 1, query, <<>>, Len(events[e])))]
  /\ inflight' = [inflight EXCEPT ![e] = @ \cup {Len(calls[e]) + 1}]
  /\ overlap' = [overlap EXCEPT ![e] =
       IF inflight[e] = {} THEN @
       ELSE @ \cup {calls[e][i].sess : i \in inflight[e]} \cup {nGets[e] + 1}]
  /\ UNCHANGED <<config, canceled, results, resultCount, delivered, events,
                 nCancels>>

\* Variant: get() also clears the canceled flag.
getClearsCanceled(e, query) ==
  /\ e \in instances
  /\ nGets[e] < MaxGets
  /\ Len(calls[e]) < MaxCalls
  /\ canceled' = [canceled EXCEPT ![e] = FALSE]
  /\ results' = [results EXCEPT ![e] = <<>>]
  /\ resultCount' = [resultCount EXCEPT ![e] = <<>>]
  /\ nGets' = [nGets EXCEPT ![e] = @ + 1]
  /\ calls' = [calls EXCEPT ![e] =
       Append(@, Call(e, nGets[e] + 1, 1, query, <<>>, Len(events[e])))]
  /\ inflight' = [inflight EXCEPT ![e] = @ \cup {Len(calls[e]) + 1}]
  /\ overlap' = [overlap EXCEPT ![e] =
       IF inflight[e] = {} THEN @
       ELSE @ \cup {calls[e][i].sess : i \in inflight[e]} \cup {nGets[e] + 1}]
  /\ UNCHANGED <<config, delivered, events, nCancels>>

\* Variant: get() drops the search calls still in flight.
getAbortsPending(e, query) ==
  /\ e \in instances
  /\ nGets[e] < MaxGets
  /\ Len(calls[e]) < MaxCalls
  /\ results' = [results EXCEPT ![e] = <<>>]
  /\ resultCount' = [resultCount EXCEPT ![e] = <<>>]
  /\ nGets' = [nGets EXCEPT ![e] = @ + 1]
  /\ calls' = [calls EXCEPT ![e] =
       Append(@, Call(e, nGets[e] + 1, 1, query, <<>>, Len(events[e])))]
  /\ inflight' = [inflight EXCEPT ![e] = {Len(calls[e]) + 1}]
  /\ overlap' = [overlap EXCEPT ![e] =
       IF inflight[e] = {} THEN @
       ELSE @ \cup {calls[e][i].sess : i \in inflight[e]} \cup {nGets[e] + 1}]
  /\ UNCHANGED <<config, canceled, delivered, events, nCancels>>

\* get(query): reset the session state and start the first batch.
get(e, query) ==
  /\ e \in instances
  /\ nGets[e] < MaxGets
  /\ Len(calls[e]) < MaxCalls
  /\ results' = [results EXCEPT ![e] = <<>>]
  /\ resultCount' = [resultCount EXCEPT ![e] = <<>>]
  /\ nGets' = [nGets EXCEPT ![e] = @ + 1]
  /\ calls' = [calls EXCEPT ![e] =
       Append(@, Call(e, nGets[e] + 1, 1, query, <<>>, Len(events[e])))]
  /\ inflight' = [inflight EXCEPT ![e] = @ \cup {Len(calls[e]) + 1}]
  /\ overlap' = [overlap EXCEPT ![e] =
       IF inflight[e] = {} THEN @
       ELSE @ \cup {calls[e][i].sess : i \in inflight[e]} \cup {nGets[e] + 1}]
  /\ UNCHANGED <<config, canceled, delivered, events, nCancels>>

\* Variant: cancel() does nothing when the instance is canceled already.
cancelOnce(e) ==
  /\ e \in instances
  /\ nCancels[e] < MaxCancels
  /\ canceled' = [canceled EXCEPT ![e] = TRUE]
  /\ events' = [events EXCEPT ![e] =
       IF canceled[e] THEN @ ELSE Append(@, EmitEnd("cancel", nGets[e], 0))]
  /\ nCancels' = [nCancels EXCEPT ![e] = @ + 1]
  /\ UNCHANGED <<config, results, resultCount, inflight, calls, delivered,
                 nGets, overlap>>

\* Variant: cancel() flips the flag.
cancelToggles(e) ==
  /\ e \in instances
  /\ nCancels[e] < MaxCancels
  /\ canceled' = [canceled EXCEPT ![e] = ~@]
  /\ events' = [events EXCEPT ![e] = Append(@, EmitEnd("cancel", nGets[e], 0))]
  /\ nCancels' = [nCancels EXCEPT ![e] = @ + 1]
  /\ UNCHANGED <<config, results, resultCount, inflight, calls, delivered,
                 nGets, overlap>>

\* cancel(): set the flag and emit `end`.
cancel(e) ==
  /\ e \in instances
  /\ nCancels[e] < MaxCancels
  /\ canceled' = [canceled EXCEPT ![e] = TRUE]
  /\ events' = [events EXCEPT ![e] = Append(@, EmitEnd("cancel", nGets[e], 0))]
  /\ nCancels' = [nCancels EXCEPT ![e] = @ + 1]
  /\ UNCHANGED <<config, results, resultCount, inflight, calls, delivered,
                 nGets, overlap>>

\* Variant: the replies are put before the rows.
ChunkRepliesFirst(page) == OrEmpty(page.replies) \o page.rows

\* `results.rows.concat(results.replies || [])`
Chunk(page) == page.rows \o OrEmpty(page.replies)

\* Variant: the outcome of a search call is never discarded.
DiscardedNever(e) == FALSE

\* The check made when a search call settles: was cancel() called?
Discarded(e) == canceled[e]

\* Variant: the guard is applied only while the result count is not known.
SizeExceededOnce(e, page) ==
  /\ resultCount[e] = <<>>
  /\ maxResults[e] # <<>>
  /\ Truthy(maxResults[e][1])
  /\ page.total > maxResults[e][1]

\* `this._maxResults && results.total > this._maxResults`
SizeExceeded(e, page) ==
  /\ maxResults[e] # <<>>
  /\ Truthy(maxResults[e][1])
  /\ page.total > maxResults[e][1]

\* Variant: the result count is taken to be unknown on every page.
CountUnknownAlways(e) == TRUE

\* `this._resultCount === null`
CountUnknown(e) == resultCount[e] = <<>>

\* Variant: a chunk longer than chunkSize also counts as full.
NextBatchAvailableAtLeast(e, chunk) == Len(chunk) >= chunkSize[e]

\* `chunk.length === this._chunkSize`
NextBatchAvailable(e, chunk) == Len(chunk) = chunkSize[e]

\* Variant: the cursor is taken from the first item of the chunk.
NextSearchAfterFirst(chunk) ==
  IF Len(chunk) > 0 THEN <<chunk[1].created>> ELSE <<>>

\* `chunk.length > 0 ? chunk[chunk.length - 1][this._sortBy] : null`
NextSearchAfter(chunk) ==
  IF Len(chunk) > 0 THEN <<chunk[Len(chunk)].created>> ELSE <<>>

\* `nextBatchAvailable && nextSearchAfter`
Continue(e, chunk) ==
  /\ NextBatchAvailable(e, chunk)
  /\ NextSearchAfter(chunk) # <<>>
  /\ Truthy(NextSearchAfter(chunk)[1])

\* Variant: in batch mode the new chunk replaces what was accumulated.
AccumulatedLast(e, chunk) == IF incremental[e] THEN results[e] ELSE chunk

\* Variant: in batch mode the new chunk is put before what was accumulated.
AccumulatedInFront(e, chunk) ==
  IF incremental[e] THEN results[e] ELSE chunk \o results[e]

\* this._results after a page was taken in.
Accumulated(e, chunk) ==
  IF incremental[e] THEN results[e] ELSE results[e] \o chunk

\* Variant: an empty chunk is not emitted.
PageEventsSkipEmpty(e, c, page) ==
  (IF CountUnknown(e)
     THEN <<EmitResultCount(c.sess, c.page, page.total)>> ELSE <<>>)
  \o (IF incremental[e] /\ Chunk(page) # <<>>
        THEN <<EmitResults(c.sess, c.page, Chunk(page))>> ELSE <<>>)

\* Variant: every page's chunk is emitted, whatever the mode.
PageEventsStreamed(e, c, page) ==
  (IF CountUnknown(e)
     THEN <<EmitResultCount(c.sess, c.page, page.total)>> ELSE <<>>)
  \o <<EmitResults(c.sess, c.page, Chunk(page))>>

\* The events a delivered page emits before the continuation is decided.
PageEvents(e, c, page) ==
  (IF CountUnknown(e)
     THEN <<EmitResultCount(c.sess, c.page, page.total)>> ELSE <<>>)
  \o (IF incremental[e]
        THEN <<EmitResults(c.sess, c.page, Chunk(page))>> ELSE <<>>)

\* Variant: `end` is emitted twice when no further batch is fetched.
FinalEventsTwice(e, c, page) ==
  <<EmitEnd("getBatch", c.sess, c.page), EmitEnd("getBatch", c.sess, c.page)>>

\* Variant: the last page leaves the session without an `end`.
FinalEventsNoEnd(e, c, page) ==
  IF ~incremental[e]
    THEN <<EmitResults(c.sess, c.page, Accumulated(e, Chunk(page)))>>
    ELSE <<>>

\* The events emitted when no further batch is fetched.
FinalEvents(e, c, page) ==
  (IF ~incremental[e]
     THEN <<EmitResults(c.sess, c.page, Accumulated(e, Chunk(page)))>>
     ELSE <<>>)
  \o <<EmitEnd("getBatch", c.sess, c.page)>>

\* Variant: the size guard reports the error and leaves the session open.
GuardEventsNoEnd(c) == <<EmitError(c.sess, c.page, SizeError)>>

\* The size guard's events.
GuardEvents(c) ==
  <<EmitError(c.sess, c.page, SizeError), EmitEnd("getBatch", c.sess, c.page)>>

\* Variant: the catch block reports a fixed message, not the failure.
FailureEventsFixed(c, err) ==
  <<EmitError(c.sess, c.page, SizeError), EmitEnd("getBatch", c.sess, c.page)>>

\* The catch block's events.
FailureEvents(c, err) ==
  <<EmitError(c.sess, c.page, err), EmitEnd("getBatch", c.sess, c.page)>>

\* The rest of _getBatch once `await this._searchFn(searchQuery)` resolved
\* call i with `page`.
Delivered(e, i, page) ==
  LET c == calls[e][i]
      chunk == Chunk(page)
      settled == [calls[e] EXCEPT ![i].answer = Resolved(page)]
  IN
  /\ i \in inflight[e]
  /\ IF Discarded(e) THEN
       /\ calls' = [calls EXCEPT ![e] = settled]
       /\ inflight' = [inflight EXCEPT ![e] = @ \ {i}]
       /\ UNCHANGED <<delivered, events, results, resultCount>>
     ELSE IF SizeExceeded(e, page) THEN
       /\ events' = [events EXCEPT ![e] = @ \o GuardEvents(c)]
       /\ calls' = [calls EXCEPT ![e] = settled]
       /\ inflight' = [inflight EXCEPT ![e] = @ \ {i}]
       /\ UNCHANGED <<delivered, results, resultCount>>
     ELSE
       /\ resultCount' = [resultCount EXCEPT ![e] =
            IF CountUnknown(e) THEN <<page.total>> ELSE @]
       /\ results' = [results EXCEPT ![e] = Accumulated(e, chunk)]
       /\ delivered' = [delivered EXCEPT ![e] = Append(@, Taken(c, page, chunk))]
       /\ IF Continue(e, chunk) THEN
            /\ Len(calls[e]) < MaxCalls
            /\ events' = [events EXCEPT ![e] = @ \o PageEvents(e, c, page)]
            /\ calls' = [calls EXCEPT ![e] =
                 Append(settled,
                        Call(e, c.sess, c.page + 1, c.query,
                             NextSearchAfter(chunk),
                             Len(events[e]) + Len(PageEvents(e, c, page))))]
            /\ inflight' = [inflight EXCEPT ![e] =
                 (@ \ {i}) \cup {Len(calls[e]) + 1}]
          ELSE
            /\ events' = [events EXCEPT ![e] =
                 @ \o PageEvents(e, c, page) \o FinalEvents(e, c, page)]
            /\ calls' = [calls EXCEPT ![e] = settled]
            /\ inflight' = [inflight EXCEPT ![e] = @ \ {i}]
  /\ UNCHANGED <<config, canceled, nGets, nCancels, overlap>>

\* The catch block of _getBatch once the search call i failed with `err`.
Failed(e, i, err) ==
  LET c == calls[e][i]
  IN
  /\ i \in inflight[e]
  /\ calls' = [calls EXCEPT ![e] = [@ EXCEPT ![i].answer = Rejected(err)]]
  /\ inflight' = [inflight EXCEPT ![e] = @ \ {i}]
  /\ IF Discarded(e)
       THEN UNCHANGED events
       ELSE events' = [events EXCEPT ![e] = @ \o FailureEvents(c, err)]
  /\ UNCHANGED <<config, canceled, results, resultCount, delivered, nGets,
                 nCancels, overlap>>

\* ----------------------------------------------------- the search function
\* Any search function: each call is answered on its own.
getBatchResolved ==
  \E e \in instances : \E i \in inflight[e] : \E page \in Pages(chunkSize[e]) :
    Delivered(e, i, page) /\ UNCHANGED served

getBatchRejected ==
  \E e \in instances : \E i \in inflight[e] : \E err \in Failures :
    Failed(e, i, err) /\ UNCHANGED served

Get ==
  \E e \in instances : \E query \in QueriesOf(nGets[e] + 1) :
    get(e, query) /\ UNCHANGED served

Cancel == \E e \in instances : cancel(e) /\ UNCHANGED served

Next == Get \/ Cancel \/ getBatchResolved \/ getBatchRejected

Spec == Init /\ [][Next]_vars

\* A search function over a finite data set sorted by `created`: the items
\* it answers a request with lie strictly after the request's search_after.
Advances(req, page) ==
  IF req.search_after = <<>> THEN TRUE
  ELSE \A k \in 1..Len(Chunk(page)) :
         Chunk(page)[k].created > req.search_after[1]

advancingResolved ==
  \E e \in instances : \E i \in inflight[e] : \E page \in Pages(chunkSize[e]) :
    /\ Advances(calls[e][i].req, page)
    /\ Delivered(e, i, page)
    /\ UNCHANGED served

\* The promise of search call i settles: it resolves or rejects.
Settles(e, i) ==
  /\ i \in inflight[e]
  /\ UNCHANGED served
  /\ \/ \E page \in Pages(chunkSize[e]) :
          Advances(calls[e][i].req, page) /\ Delivered(e, i, page)
     \/ \E err \in Failures : Failed(e, i, err)

NextLive == Get \/ Cancel \/ advancingResolved \/ getBatchRejected

\* Every search call eventually resolves or rejects.
SpecLive ==
  /\ Init
  /\ [][NextLive]_vars
  /\ \A e \in EngineIds : \A i \in 1..MaxCalls : WF_vars(Settles(e, i))

\* The same search function responses for two instances: the answer to the
\* n-th request of a session is the same for whoever makes that request.
Answer(c, ok, page, err) ==
  [sess |-> c.sess, n |-> c.page, req |-> c.req,
   ok |-> ok, page |-> page, err |-> err]

NoPage == [total |-> 0, rows |-> <<>>, replies |-> <<>>]

Consistent(a) ==
  \A b \in served :
    b.sess = a.sess /\ b.n = a.n /\ b.req = a.req => b = a

sameResolved ==
  \E e \in instances : \E i \in inflight[e] : \E page \in Pages(chunkSize[e]) :
    /\ Consistent(Answer(calls[e][i], TRUE, page, ""))
    /\ Delivered(e, i, page)
    /\ served' = served \cup {Answer(calls[e][i], TRUE, page, "")}

sameRejected ==
  \E e \in instances : \E i \in inflight[e] : \E err \in Failures :
    /\ Consistent(Answer(calls[e][i], FALSE, NoPage, err))
    /\ Failed(e, i, err)
    /\ served' = served \cup {Answer(calls[e][i], FALSE, NoPage, err)}

\* One session on each instance, for the same query.
getOnce ==
  \E e \in instances : \E query \in QueriesOf(1) :
    nGets[e] = 0 /\ get(e, query) /\ UNCHANGED served

\* Two instances that differ in `incremental` only.
InitPair ==
  /\ Constructed({1, 2})
  /\ incremental = [e \in EngineIds |-> e = 1]
  /\ chunkSize[2] = chunkSize[1]
  /\ maxResults[2] = maxResults[1]

NextPair == getOnce \/ sameResolved \/ sameRejected

SpecPair == InitPair /\ [][NextPair]_vars

\* ------------------------------------------------- reading the histories
Sessions(e) == 1..nGets[e]

\* The events the batches of session s emitted, in order.
SessEvents(e, s) ==
  SelectSeq(events[e], LAMBDA ev : ev.by = "getBatch" /\ ev.sess = s)

\* The search calls of session s, in order.
SessCalls(e, s) == SelectSeq(calls[e], LAMBDA c : c.sess = s)

\* The pages session s took in, in order.
SessPages(e, s) == SelectSeq(delivered[e], LAMBDA d : d.sess = s)

KindsOf(evs) == [i \in 1..Len(evs) |-> evs[i].kind]

OfKind(evs, kind) == SelectSeq(evs, LAMBDA ev : ev.kind = kind)

\* No search call of session s is waiting for its answer.
Settled(e, s) == \A i \in inflight[e] : calls[e][i].sess # s

\* cancel() was called before the n-th event was emitted.
CanceledBy(e, n) == \E i \in 1..n : events[e][i].by = "cancel"

\* Session s ran alone, on an instance that was never canceled.
Undisturbed(e, s) == nCancels[e] = 0 /\ s \notin overlap[e]

RECURSIVE Flatten(_)
Flatten(chunks) ==
  IF chunks = <<>> THEN <<>> ELSE Head(chunks) \o Flatten(Tail(chunks))

ChunksOf(pages) == [i \in 1..Len(pages) |-> pages[i].chunk]

\* ----------------------------------------------------------------- claims
\* C1: once cancel() was called, the instance emits nothing but the `end`
\* events of cancel() calls, and no search call that settles afterwards
\* leads to a request for a further page.
C1_CancelSilences ==
  \A e \in instances :
    /\ \A i, j \in 1..Len(events[e]) :
         i < j /\ events[e][i].by = "cancel"
           => events[e][j].by = "cancel" /\ events[e][j].kind = "end"
    /\ \A k \in 1..Len(calls[e]) :
         calls[e][k].page > 1 => ~CanceledBy(e, calls[e][k].seen)

\* A search call made before cancel() resolved after it, with a page the
\* guard would let through, and was dropped.
C1_Witness ==
  \E e \in instances :
    /\ events[e] = <<EmitEnd("cancel", 1, 0)>>
    /\ Len(calls[e]) = 1 /\ inflight[e] = {}
    /\ calls[e][1].answer.state = "resolved"
    /\ maxResults[e] = <<>>

\* The events of a session form resultCount?, results*, (error? end)?.
InOrder(kinds) ==
  \A i \in 1..Len(kinds) :
    /\ kinds[i] = "resultCount" => i = 1
    /\ kinds[i] = "results" =>
         \A j \in 1..(i - 1) : kinds[j] \in {"resultCount", "results"}
    /\ kinds[i] = "error" => i + 1 = Len(kinds) /\ kinds[i + 1] = "end"
    /\ kinds[i] = "end" => i = Len(kinds)

\* C2: a session that runs alone on an instance that is never canceled
\* emits at most one resultCount, first, then results events, then one
\* terminal end that an error may immediately precede; nothing follows end.
C2_SessionOrder ==
  \A e \in instances : \A s \in Sessions(e) :
    Undisturbed(e, s) =>
      /\ InOrder(KindsOf(SessEvents(e, s)))
      /\ \A i \in 1..Len(events[e]) :
           events[e][i].kind = "error" /\ events[e][i].sess = s =>
             /\ i < Len(events[e])
             /\ events[e][i + 1].kind = "end" /\ events[e][i + 1].sess = s
      /\ Settled(e, s) =>
           /\ Len(OfKind(SessEvents(e, s), "end")) = 1
           /\ SessEvents(e, s)[Len(SessEvents(e, s))].kind = "end"

\* A lone session delivered two pages incrementally and ended.
C2_Witness ==
  \E e \in instances : \E s \in Sessions(e) :
    /\ Undisturbed(e, s)
    /\ Settled(e, s)
    /\ KindsOf(SessEvents(e, s)) = <<"resultCount", "results", "results", "end">>

\* C3 as stated: in every session whose first page is delivered,
\* resultCount is emitted exactly once, before the first results event, and
\* carries the total of the first page.
C3_Original ==
  \A e \in instances : \A s \in Sessions(e) :
    SessPages(e, s) # <<>> =>
      /\ Len(OfKind(SessEvents(e, s), "resultCount")) = 1
      /\ SessEvents(e, s)[1].kind = "resultCount"
      /\ SessEvents(e, s)[1].total = SessPages(e, s)[1].total

\* C3 amended: the same, for the sessions that no other get() overlaps.
C3_CountOnce ==
  \A e \in instances : \A s \in Sessions(e) :
    SessPages(e, s) # <<>> /\ s \notin overlap[e] =>
      /\ Len(OfKind(SessEvents(e, s), "resultCount")) = 1
      /\ SessEvents(e, s)[1].kind = "resultCount"
      /\ SessEvents(e, s)[1].total = SessPages(e, s)[1].total

\* A lone session took in two pages whose totals differ.
C3_Witness ==
  \E e \in instances : \E s \in Sessions(e) :
    /\ s \notin overlap[e]
    /\ Len(SessPages(e, s)) = 2
    /\ SessPages(e, s)[1].total # SessPages(e, s)[2].total

\* C4: when maxResults is set and the first page of a session reports a
\* larger total (cancel() not called), the session emits the size error,
\* then end, and nothing else, and makes no further search call.
C4_SizeGuard ==
  \A e \in instances : \A s \in Sessions(e) :
    /\ nCancels[e] = 0
    /\ maxResults[e] # <<>>
    /\ SessCalls(e, s)[1].answer.state = "resolved"
    /\ SessCalls(e, s)[1].answer.total > maxResults[e][1]
    => /\ SessEvents(e, s) = <<EmitError(s, 1, SizeError),
                               EmitEnd("getBatch", s, 1)>>
       /\ Len(SessCalls(e, s)) = 1
       /\ Settled(e, s)

\* The guard fired on the first page of a session, in each mode.
C4_Witness ==
  \E e \in instances : \E s \in Sessions(e) :
    /\ nCancels[e] = 0
    /\ maxResults[e] # <<>>
    /\ SessCalls(e, s)[1].answer.state = "resolved"
    /\ SessCalls(e, s)[1].answer.total > maxResults[e][1]
    /\ ~incremental[e]

\* Session s ended without error, guard violation or cancellation.
Completed(e, s) ==
  /\ nCancels[e] = 0
  /\ Settled(e, s)
  /\ OfKind(SessEvents(e, s), "error") = <<>>
  /\ OfKind(SessEvents(e, s), "end") # <<>>

\* The payloads of the results events of session s, in order.
Payloads(e, s) ==
  LET evs == OfKind(SessEvents(e, s), "results")
  IN [i \in 1..Len(evs) |-> evs[i].items]

RequestsOf(e, s) == [i \in 1..Len(SessCalls(e, s)) |-> SessCalls(e, s)[i].req]

\* C5: given the same query and the same search function responses, the
\* results payloads of a completed incremental session, concatenated in
\* order, are the one results payload of the completed batch session, and
\* both sessions made the same requests.
C5_IncrementalIsBatch ==
  \A i, b \in instances : \A s \in Sessions(i) : \A t \in Sessions(b) :
    /\ incremental[i] /\ ~incremental[b]
    /\ Completed(i, s) /\ Completed(b, t)
    /\ SessCalls(i, s)[1].query = SessCalls(b, t)[1].query
    => /\ Len(Payloads(b, t)) = 1
       /\ Flatten(Payloads(i, s)) = Payloads(b, t)[1]
       /\ RequestsOf(i, s) = RequestsOf(b, t)

\* Both sessions completed after three pages that carried items.
C5_Witness ==
  \E i, b \in instances :
    /\ incremental[i] /\ ~incremental[b]
    /\ Completed(i, 1) /\ Completed(b, 1)
    /\ Len(SessPages(i, 1)) = 3 /\ Len(SessPages(b, 1)) = 3
    /\ Len(Flatten(Payloads(i, 1))) >= 5

\* C6: when a search call of a never-canceled instance fails, the session
\* emits error with that failure, then end, and stops: it makes no other
\* call; a failure of the first call leaves error, end as all its events.
C6_FailureEnds ==
  \A e \in instances : \A s \in Sessions(e) :
    \A k \in 1..Len(SessCalls(e, s)) :
      nCancels[e] = 0 /\ SessCalls(e, s)[k].answer.state = "rejected" =>
        LET evs == SessEvents(e, s)
            c == SessCalls(e, s)[k]
        IN /\ k = Len(SessCalls(e, s))
           /\ c.page = k
           /\ Settled(e, s)
           /\ Len(evs) >= 2
           /\ evs[Len(evs) - 1] = EmitError(s, k, c.answer.err)
           /\ evs[Len(evs)] = EmitEnd("getBatch", s, k)
           /\ OfKind(evs, "error") = <<evs[Len(evs) - 1]>>
           /\ k = 1 => Len(evs) = 2

\* The second page of a session failed, after the first was emitted.
C6_Witness ==
  \E e \in instances : \E s \in Sessions(e) :
    /\ nCancels[e] = 0
    /\ Len(SessCalls(e, s)) = 2
    /\ SessCalls(e, s)[2].answer.state = "rejected"
    /\ incremental[e]
    /\ Len(SessPages(e, s)) = 1

\* C7: a get() made after the previous session's end (cancel() never
\* called) gives a session of its own: its events are in order and come
\* after those of the earlier session, its resultCount is the total of its
\* own first page, and a batch results payload holds its own pages only.
C7_SecondSession ==
  \A e \in instances : \A s \in Sessions(e) :
    s > 1 /\ nCancels[e] = 0 /\ overlap[e] = {} =>
      /\ InOrder(KindsOf(SessEvents(e, s)))
      /\ \A i, j \in 1..Len(events[e]) :
           events[e][i].sess = s /\ events[e][j].sess < s => j < i
      /\ SessPages(e, s) # <<>> =>
           SessEvents(e, s)[1] =
             EmitResultCount(s, 1, SessPages(e, s)[1].total)
      /\ ~incremental[e] =>
           \A i \in 1..Len(Payloads(e, s)) :
             Payloads(e, s)[i] = Flatten(ChunksOf(SessPages(e, s)))

\* Two batch sessions in sequence, each with items of its own.
C7_Witness ==
  \E e \in instances :
    /\ ~incremental[e] /\ nCancels[e] = 0 /\ overlap[e] = {}
    /\ nGets[e] = 2
    /\ Completed(e, 1) /\ Completed(e, 2)
    /\ Payloads(e, 1) # <<>> /\ Payloads(e, 1)[1] # <<>>
    /\ Payloads(e, 2) # <<>> /\ Payloads(e, 2)[1] # <<>>
    /\ SessPages(e, 1)[1].total # SessPages(e, 2)[1].total

\* Session s was started by a get() that followed a cancel().
StartedCanceled(e, s) == CanceledBy(e, SessCalls(e, s)[1].seen)

\* C8 as stated: a get() after cancel() clears the canceled flag, and the
\* session it starts ends with exactly one end of its own.
C8_Original ==
  \A e \in instances : \A s \in Sessions(e) :
    StartedCanceled(e, s) /\ Settled(e, s) =>
      /\ Len(OfKind(SessEvents(e, s), "end")) = 1
      /\ SessCalls(e, s)[1].answer.state = "resolved" =>
           OfKind(SessEvents(e, s), "error") # <<>>
           \/ OfKind(SessEvents(e, s), "resultCount") # <<>>

\* C8 amended: a get() after cancel() resets the results and the result
\* count but not the canceled flag: the session makes its first search
\* call, takes no page in, emits nothing and requests no further page.
C8_NoRestart ==
  \A e \in instances : \A s \in Sessions(e) :
    StartedCanceled(e, s) =>
      /\ canceled[e]
      /\ SessEvents(e, s) = <<>>
      /\ SessPages(e, s) = <<>>
      /\ Len(SessCalls(e, s)) = 1
      /\ SessCalls(e, s)[1].req.search_after = <<>>
      /\ s = nGets[e] => results[e] = <<>> /\ resultCount[e] = <<>>

\* A session started after cancel() got its first page, which the guard
\* would let through, after an earlier session had delivered items.
C8_Witness ==
  \E e \in instances : \E s \in Sessions(e) :
    /\ StartedCanceled(e, s) /\ Settled(e, s)
    /\ SessCalls(e, s)[1].answer.state = "resolved"
    /\ maxResults[e] = <<>>
    /\ s = 2 /\ SessPages(e, 1) # <<>> /\ SessPages(e, 1)[1].chunk # <<>>
    /\ ~incremental[e]

\* C9: every cancel() call sets the canceled flag and emits exactly one
\* event, an end; n calls leave n such events.
C9_CancelEmitsEnd ==
  [][\A e \in instances :
       nCancels'[e] # nCancels[e] =>
         /\ canceled'[e]
         /\ events'[e] = Append(events[e], EmitEnd("cancel", nGets[e], 0))
         /\ nCancels'[e] =
              Len(SelectSeq(events'[e], LAMBDA ev : ev.by = "cancel"))]_vars

\* cancel() was called before any get(), and again with a search call in
\* flight on the canceled instance.
C9_Witness ==
  \E e \in instances :
    /\ nCancels[e] = 2
    /\ inflight[e] # {}
    /\ \E i, j \in 1..Len(events[e]) :
         /\ i < j
         /\ events[e][i] = EmitEnd("cancel", 0, 0)
         /\ events[e][j] = EmitEnd("cancel", 1, 0)

\* C10: a session has at most one search call in flight; its first request
\* has no search_after; the request for a later page is made once the page
\* before was taken in and its events emitted, and carries the sort value
\* of that page's last item and the query get() was called with.
C10_SequentialPaging ==
  \A e \in instances : \A s \in Sessions(e) :
    /\ Cardinality({i \in inflight[e] : calls[e][i].sess = s}) <= 1
    /\ \A k \in 1..Len(SessCalls(e, s)) :
         LET c == SessCalls(e, s)[k]
         IN /\ c.page = k
            /\ k = 1 => c.req.search_after = <<>>
            /\ k > 1 =>
                 /\ SessCalls(e, s)[k - 1].answer.state = "resolved"
                 /\ Len(SessPages(e, s)) >= k - 1
                 /\ LET prev == SessPages(e, s)[k - 1]
                    IN /\ prev.page = k - 1
                       /\ prev.chunk # <<>>
                       /\ c.req.search_after =
                            <<prev.chunk[Len(prev.chunk)].created>>
                       /\ incremental[e] =>
                            \E n \in 1..c.seen :
                              events[e][n] = EmitResults(s, k - 1, prev.chunk)
                 /\ c.req.query = SessCalls(e, s)[1].query
                 /\ c.req.limit = chunkSize[e]
                 /\ \A n \in 1..Len(events[e]) :
                      /\ events[e][n].by = "getBatch"
                      /\ events[e][n].sess = s
                      /\ events[e][n].page < k
                      => n <= c.seen

\* A session requested its second page, after a chunk whose first item has
\* a falsy sort value, on an instance where sessions with different queries
\* overlapped.
C10_Witness ==
  \E e \in instances : \E s \in Sessions(e) :
    /\ Len(SessCalls(e, s)) = 2
    /\ SessPages(e, s)[1].chunk[1].created = 0
    /\ overlap[e] # {}
    /\ \E t \in Sessions(e) : SessCalls(e, t)[1].query # SessCalls(e, s)[1].query

\* The pages the search function answered the n-th request of session s
\* with, where the answers are kept.
AnswersTo(e, s, n) ==
  {a \in served : a.sess = s /\ a.n = n /\ a.req = SessCalls(e, s)[n].req /\ a.ok}

\* C11: an incremental session whose first page is let through by the guard
\* and holds fewer items than chunkSize makes one search call and emits one
\* results event, with the rows followed by the replies, then end, and no
\* error.
C11_ShortFirstPage ==
  \A e \in instances : \A s \in Sessions(e) :
    \A a \in AnswersTo(e, s, 1) :
      /\ incremental[e]
      /\ nCancels[e] = 0
      /\ SessCalls(e, s)[1].answer.state = "resolved"
      /\ ~SizeExceeded(e, a.page)
      /\ Len(a.page.rows) + Len(OrEmpty(a.page.replies)) < chunkSize[e]
      => LET evs == SessEvents(e, s)
         IN /\ Len(SessCalls(e, s)) = 1
            /\ Settled(e, s)
            /\ OfKind(evs, "results") =
                 <<EmitResults(s, 1, a.page.rows \o OrEmpty(a.page.replies))>>
            /\ OfKind(evs, "error") = <<>>
            /\ Len(OfKind(evs, "end")) = 1
            /\ evs[Len(evs)].kind = "end"
            /\ evs[Len(evs) - 1].kind = "results"

\* A first page with one row and one reply, where chunkSize is 3.
C11_Witness ==
  \E e \in instances : \E s \in Sessions(e) : \E a \in AnswersTo(e, s, 1) :
    /\ incremental[e]
    /\ SessCalls(e, s)[1].answer.state = "resolved"
    /\ ~SizeExceeded(e, a.page)
    /\ Len(a.page.rows) = 1 /\ a.page.replies # <<>>
    /\ a.page.rows[1] # a.page.replies[1][1]
    /\ chunkSize[e] = 3

\* Session s of e has emitted the end of its own batches.
Ended(e, s) ==
  \E k \in 1..Len(events[e]) :
    events[e][k] \in {EmitEnd("getBatch", s, n) : n \in 1..MaxCalls}

\* C12: when every search call settles and the search function's answers lie
\* strictly after the cursor, a session started by get() on an instance that
\* is never canceled eventually emits end; and a cancel() call made once a
\* session was started emits that session's end in the call itself.
C12_EventuallyEnds ==
  /\ \A e \in EngineIds : \A s \in 1..MaxGets :
       (nGets[e] >= s) ~> (canceled[e] \/ Ended(e, s))
  /\ [][\A e \in instances :
          nCancels'[e] # nCancels[e] /\ nGets[e] >= 1 =>
            /\ events'[e][Len(events'[e])] = EmitEnd("cancel", nGets[e], 0)
            /\ Len(events'[e]) = Len(events[e]) + 1]_vars

\* A session on an instance never canceled asked for two pages and ended on
\* the second, which was empty; a second session was ended by cancel().
C12_Witness ==
  \E e \in instances :
    /\ Len(SessCalls(e, 1)) = 2
    /\ Len(SessPages(e, 1)) = 2
    /\ SessPages(e, 1)[2].chunk = <<>>
    /\ Ended(e, 1)
    /\ nGets[e] = 2
    /\ events[e][Len(events[e])] = EmitEnd("cancel", 2, 0)

\* The calls of session s that ask for the page after page n.
CallsAfter(e, s, n) ==
  {i \in 1..Len(calls[e]) : calls[e][i].sess = s /\ calls[e][i].page > n}

\* The batch that took in page n of session s emitted end.
EndedAt(e, s, n) ==
  Len(SelectSeq(events[e], LAMBDA ev : ev = EmitEnd("getBatch", s, n))) = 1

\* C13: once a page was taken in, the next page is requested if and only if
\* the chunk holds exactly chunkSize items and the `created` value of its
\* last item is truthy; otherwise the session emits end at this page and
\* makes no further request.
C13_Continuation ==
  \A e \in instances : \A k \in 1..Len(delivered[e]) :
    LET d == delivered[e][k]
        full == Len(d.chunk) = chunkSize[e]
        cursor == IF d.chunk = <<>> THEN 0 ELSE d.chunk[Len(d.chunk)].created
    IN IF full /\ cursor # 0
         THEN /\ \E i \in CallsAfter(e, d.sess, d.page) :
                   /\ calls[e][i].page = d.page + 1
                   /\ calls[e][i].req.search_after = <<cursor>>
              /\ ~EndedAt(e, d.sess, d.page)
         ELSE /\ CallsAfter(e, d.sess, d.page) = {}
              /\ EndedAt(e, d.sess, d.page)

\* One session ended on a page longer than chunkSize whose last item has a
\* truthy `created`, another on a full page whose last item has created 0.
C13_Witness ==
  \E e \in instances : \E j, k \in 1..Len(delivered[e]) :
    /\ Len(delivered[e][j].chunk) > chunkSize[e]
    /\ delivered[e][j].chunk[Len(delivered[e][j].chunk)].created # 0
    /\ EndedAt(e, delivered[e][j].sess, delivered[e][j].page)
    /\ Len(delivered[e][k].chunk) = chunkSize[e]
    /\ delivered[e][k].chunk[chunkSize[e]].created = 0
    /\ EndedAt(e, delivered[e][k].sess, delivered[e][k].page)

\* The events of the batch that asked for page n of session s.
BatchEvents(e, s, n) ==
  SelectSeq(events[e],
            LAMBDA ev : ev.by = "getBatch" /\ ev.sess = s /\ ev.page = n)

TakenAtGet(e, k) ==
  LET gets == {calls[e][i].taken : i \in {j \in 1..Len(calls[e]) :
                 calls[e][j].page = 1 /\ calls[e][j].taken < k}}
  IN CHOOSE t \in gets : \A u \in gets : u <= t

\* The chunks of the pages the instance took in from that get() call up to
\* its k-th page, joined in the order they were taken in.
AccumulatedAt(e, k) ==
  Flatten([i \in 1..(k - TakenAtGet(e, k)) |->
             delivered[e][TakenAtGet(e, k) + i].chunk])

\* The place among the pages taken in of page n of session s.
TakenIndex(e, s, n) ==
  CHOOSE k \in 1..Len(delivered[e]) :
    delivered[e][k].sess = s /\ delivered[e][k].page = n

\* C15: a batch-mode session emits results at most once. The event comes
\* from the batch that ends the session normally, is followed at once by
\* that batch's end and carries what was accumulated, which for a session
\* that ran alone is all its chunks in fetch order; a session that completes
\* normally emits it, and a session ended by an error, the guard or cancel()
\* does not, whatever it had accumulated.
C15_BatchResultsOnce ==
  \A e \in instances : \A s \in Sessions(e) :
    ~incremental[e] =>
      LET evs == SessEvents(e, s)
          res == OfKind(evs, "results")
      IN /\ Len(res) <= 1
         /\ OfKind(evs, "error") # <<>> => res = <<>>
         /\ OfKind(evs, "end") = <<>> => res = <<>>
         /\ Settled(e, s) /\ OfKind(evs, "end") # <<>>
              /\ OfKind(evs, "error") = <<>> => Len(res) = 1
         /\ \A k \in 1..Len(events[e]) :
              events[e][k].kind = "results" /\ events[e][k].sess = s =>
                /\ k < Len(events[e])
                /\ events[e][k + 1] = EmitEnd("getBatch", s, events[e][k].page)
                /\ events[e][k].items =
                     AccumulatedAt(e, TakenIndex(e, s, events[e][k].page))
                /\ s \notin overlap[e] =>
                     events[e][k].items = Flatten(ChunksOf(SessPages(e, s)))

\* A batch session took in a page and then failed on the next one, emitting
\* no results; the session after it completed and emitted results once.
C15_Witness ==
  \E e \in instances :
    /\ ~incremental[e]
    /\ nGets[e] = 2
    /\ overlap[e] = {}
    /\ SessPages(e, 1) # <<>>
    /\ KindsOf(SessEvents(e, 1)) = <<"resultCount", "error", "end">>
    /\ KindsOf(SessEvents(e, 2)) = <<"resultCount", "results", "end">>
    /\ SessEvents(e, 2)[2].items # <<>>

\* C16: the canceled flag starts false, is set only by a cancel() call, and
\* once set is left set by every operation: get(), cancel(), a search call
\* resolving or rejecting.
C16_CanceledMonotonic ==
  /\ \A e \in EngineIds : ~canceled[e]
  /\ [][\A e \in EngineIds :
          /\ canceled[e] => canceled'[e]
          /\ canceled'[e] # canceled[e] => nCancels'[e] = nCancels[e] + 1
          /\ nCancels'[e] # nCancels[e] => canceled'[e]]_vars

\* On a canceled instance cancel() was called again, get() was called, and
\* the search call of that get() was rejected; the flag is still set.
C16_Witness ==
  \E e \in instances : \E s \in Sessions(e) :
    /\ canceled[e]
    /\ nCancels[e] = 2
    /\ StartedCanceled(e, s) /\ Settled(e, s)
    /\ SessCalls(e, s)[1].answer.state = "rejected"
    /\ events[e][Len(events[e])].by = "cancel"

\* C17: with cancel() never called, a get() made while a search call of an
\* earlier session is in flight leaves that call in flight: its answer,
\* unless the guard refuses it, is taken in; a session that overlapped
\* another one still ends with one end of its own, emitted last.
C17_OverlapKeepsOldSession ==
  \A e \in instances :
    nCancels[e] = 0 =>
      /\ \A i \in 1..Len(calls[e]) :
           calls[e][i].answer.state = "pending" <=> i \in inflight[e]
      /\ \A s \in overlap[e] :
           /\ \A i \in 1..Len(calls[e]) :
                /\ calls[e][i].sess = s
                /\ calls[e][i].answer.state = "resolved"
                /\ maxResults[e] # <<>> =>
                     calls[e][i].answer.total <= maxResults[e][1]
                => \E k \in 1..Len(delivered[e]) :
                     /\ delivered[e][k].sess = s
                     /\ delivered[e][k].page = calls[e][i].page
           /\ Settled(e, s) =>
                /\ Len(OfKind(SessEvents(e, s), "end")) = 1
                /\ SessEvents(e, s)[Len(SessEvents(e, s))].kind = "end"

\* Session 2 was started with the first call of session 1 in flight; session
\* 1 then took its page in and asked for a second one; both sessions ended,
\* and events of session 2 lie between events of session 1.
C17_Witness ==
  \E e \in instances :
    /\ nCancels[e] = 0
    /\ Len(calls[e]) = 3
    /\ calls[e][1].sess = 1 /\ calls[e][2].sess = 2 /\ calls[e][3].sess = 1
    /\ calls[e][2].taken = 0
    /\ inflight[e] = {}
    /\ OfKind(SessEvents(e, 1), "end") # <<>>
    /\ OfKind(SessEvents(e, 2), "end") # <<>>
    /\ \E j, k, l \in 1..Len(events[e]) :
         /\ j < k /\ k < l
         /\ events[e][j].sess = 1 /\ events[e][k].sess = 2
         /\ events[e][l].sess = 1

\* The session started by the get() call that last preceded the k-th event.
LatestAt(e, k) ==
  LET ss == {calls[e][i].sess : i \in {j \in 1..Len(calls[e]) :
               calls[e][j].page = 1 /\ calls[e][j].seen < k}}
  IN CHOOSE s \in ss : \A u \in ss : u <= s

\* C18 as stated: in batch mode a results payload is made of chunks of the
\* session the most recent get() started and of no other, and a resultCount
\* event comes from the first page of that session.
C18_Original ==
  \A e \in instances : \A k \in 1..Len(events[e]) :
    ~incremental[e] /\ events[e][k].by = "getBatch" =>
      LET own == SessPages(e, LatestAt(e, k))
      IN /\ events[e][k].kind = "results" =>
              \E n \in 0..Len(own) :
                events[e][k].items = Flatten(ChunksOf(SubSeq(own, 1, n)))
         /\ events[e][k].kind = "resultCount" =>
              /\ events[e][k].sess = LatestAt(e, k)
              /\ events[e][k].page = 1

\* C18: in batch mode the accumulated results and the result count belong to
\* the instance, not to a session. A results payload holds the chunks of
\* every page taken in since the most recent get(), in the order they were
\* taken in, whichever session asked for them; resultCount is emitted for
\* the first page taken in after the most recent get(), whichever session
\* asked for it. A session that overlapped no other one emits its own chunks
\* and the total of its own first page.
C18_SharedAccumulator ==
  \A e \in instances :
    ~incremental[e] =>
      /\ \A k \in 1..Len(events[e]) :
           LET ev == events[e][k]
           IN /\ ev.kind = "results" =>
                   /\ ev.items = AccumulatedAt(e, TakenIndex(e, ev.sess, ev.page))
                   /\ ev.sess \notin overlap[e] =>
                        ev.items = Flatten(ChunksOf(SessPages(e, ev.sess)))
              /\ ev.kind = "resultCount" =>
                   /\ TakenIndex(e, ev.sess, ev.page) =
                        TakenAtGet(e, TakenIndex(e, ev.sess, ev.page)) + 1
                   /\ ev.total =
                        delivered[e][TakenIndex(e, ev.sess, ev.page)].total
                   /\ ev.sess \notin overlap[e] => ev.page = 1
      /\ \A j \in 1..Len(delivered[e]) :
           j = TakenAtGet(e, j) + 1 =>
             \E k \in 1..Len(events[e]) :
               events[e][k] = EmitResultCount(delivered[e][j].sess,
                                              delivered[e][j].page,
                                              delivered[e][j].total)

\* In batch mode session 2 was started with the call of session 1 in flight;
\* the page of session 1 was taken in after that and gave the result count,
\* and the results of session 2 begin with the chunk of session 1.
C18_Witness ==
  \E e \in instances :
    /\ ~incremental[e]
    /\ nCancels[e] = 0
    /\ overlap[e] = {1, 2}
    /\ Len(delivered[e]) = 2
    /\ delivered[e][1].sess = 1 /\ delivered[e][2].sess = 2
    /\ delivered[e][1].chunk # <<>> /\ delivered[e][2].chunk # <<>>
    /\ delivered[e][1].total # delivered[e][2].total
    /\ OfKind(SessEvents(e, 2), "resultCount") = <<>>
    /\ OfKind(SessEvents(e, 2), "results") =
         <<EmitResults(2, 1, delivered[e][1].chunk \o delivered[e][2].chunk)>>

\* C19: an incremental session that ended without error, guard violation or
\* cancellation emitted one results event per search request, in page order,
\* each with the chunk of its page, the last one right before end; so when
\* every page with items was full, the last request is one more, and the
\* last results event carries its empty chunk.
C19_ResultsPerRequest ==
  \A e \in instances : \A s \in Sessions(e) :
    incremental[e] /\ Completed(e, s) =>
      LET evs == SessEvents(e, s)
          res == OfKind(evs, "results")
          pages == SessPages(e, s)
      IN /\ Len(res) = Len(SessCalls(e, s))
         /\ Len(res) = Len(pages)
         /\ \A n \in 1..Len(res) : res[n] = EmitResults(s, n, pages[n].chunk)
         /\ evs[Len(evs)] = EmitEnd("getBatch", s, Len(res))
         /\ evs[Len(evs) - 1] = res[Len(res)]
         /\ \A n \in 1..(Len(res) - 1) : Len(res[n].items) = chunkSize[e]

\* A full first page, then a request answered with no items: two results
\* events, the second one empty.
C19_Witness ==
  \E e \in instances : \E s \in Sessions(e) :
    /\ incremental[e] /\ Completed(e, s)
    /\ Len(SessCalls(e, s)) = 2
    /\ Len(Payloads(e, s)) = 2
    /\ Len(Payloads(e, s)[1]) = chunkSize[e]
    /\ Payloads(e, s)[2] = <<>>

====
